---- MODULE Spec2Model ----
(***************************************************************************)
(* Software depth rasterizer of GPU/Common/DepthRaster.cpp:                *)
(* DepthRasterRect, DepthRasterTriangle and DepthRasterPrim acting on a    *)
(* caller-owned 16-bit depth buffer and a caller-owned scratch buffer.     *)
(*                                                                         *)
(* The depth buffer is a function from the linear cell index               *)
(* row * Stride + col to 0..65535.  Single-precision arithmetic of the     *)
(* triangle rasterizer is modelled bit-exactly (24-bit significand, round  *)
(* to nearest, ties to even) on the non-negative values it computes.       *)
(***************************************************************************)
EXTENDS Integers, Sequences, FiniteSets, TLC

VARIABLES depth, behind, last, draws, arch

vars == <<depth, behind, last, draws, arch>>

(***************************************************************************)
(* Bounds of the model.                                                    *)
(***************************************************************************)
Stride == 8
Rows == 8
MaxCount == 5
MaxDraws == 2

NumCells == Stride * Rows
Cells == 0 .. (NumCells - 1)
ColOf(idx) == idx % Stride
RowOf(idx) == idx \div Stride

U16Max == 65535

Min2(a, b) == IF a < b THEN a ELSE b
Max2(a, b) == IF a > b THEN a ELSE b

(***************************************************************************)
(* GEComparison, the depth functions of the GPU state.                     *)
(***************************************************************************)
GEComparison == {"NEVER", "ALWAYS", "EQUAL", "NOTEQUAL", "LESS", "LEQUAL", "GREATER", "GEQUAL"}

(***************************************************************************)
(* IEEE-754 binary32 values >= 0 as <<m, e>>, the value m * 2^e with       *)
(* 2^23 <= m < 2^24, and <<0, 0>> for zero.  All intermediate integers     *)
(* stay below 2^31.                                                        *)
(***************************************************************************)
RECURSIVE BitLen(_)
BitLen(n) == IF n = 0 THEN 0 ELSE 1 + BitLen(n \div 2)

F32Zero == <<0, 0>>

\* Round the value (M + f) * 2^e to 24 significant bits, where 0 <= f < 1 and
\* sticky says f # 0.  When sticky holds M carries at least 26 bits.
F32Round(M, e, sticky) ==
    LET L == BitLen(M) IN
    IF M = 0 THEN F32Zero
    ELSE IF L <= 24 THEN <<M * 2^(24 - L), e - (24 - L)>>
    ELSE LET s == L - 24
             q == M \div 2^s
             r == M % 2^s
             half == 2^(s - 1)
             up == \/ r > half
                   \/ r = half /\ sticky
                   \/ r = half /\ ~sticky /\ q % 2 = 1
             q2 == IF up THEN q + 1 ELSE q
         IN IF q2 = 2^24 THEN <<2^23, e + s + 1>> ELSE <<q2, e + s>>

\* (float)n for an integer 0 <= n < 2^31
F32FromInt(n) == F32Round(n, 0, FALSE)

\* a * b, from the exact 48-bit product of the significands in 12-bit limbs
F32Mul(a, b) ==
    IF a[1] = 0 \/ b[1] = 0 THEN F32Zero
    ELSE LET a1 == a[1] \div 4096
             a0 == a[1] % 4096
             b1 == b[1] \div 4096
             b0 == b[1] % 4096
             p0 == a0 * b0
             t1 == a1 * b0 + a0 * b1 + (p0 \div 4096)
             H == a1 * b1 + (t1 \div 4096)
             Lo == (t1 % 4096) * 4096 + (p0 % 4096)
         IN F32Round(H * 64 + (Lo \div 262144), a[2] + b[2] + 18, Lo % 262144 # 0)

\* a + b, with three guard bits and a sticky bit
F32Add(a, b) ==
    IF a[1] = 0 THEN b
    ELSE IF b[1] = 0 THEN a
    ELSE LET hi == IF a[2] >= b[2] THEN a ELSE b
             lo == IF a[2] >= b[2] THEN b ELSE a
             d == hi[2] - lo[2]
             sh == IF d >= 27 THEN 0 ELSE (lo[1] * 8) \div 2^d
             st == IF d >= 27 THEN TRUE ELSE (lo[1] * 8) % 2^d # 0
         IN F32Round(hi[1] * 8 + sh, hi[2] - 3, st)

\* Restoring division: after k steps q holds the next k quotient bits.
RECURSIVE DivBits(_, _, _, _)
DivBits(rem, den, q, k) ==
    IF k = 0 THEN <<q, rem>>
    ELSE IF rem >= den THEN DivBits((rem - den) * 2, den, q * 2 + 1, k - 1)
    ELSE DivBits(rem * 2, den, q * 2, k - 1)

\* a / b for b # 0
F32Div(a, b) ==
    IF a[1] = 0 THEN F32Zero
    ELSE LET qr == DivBits(a[1], b[1], 0, 26)
         IN F32Round(qr[1], a[2] - b[2] - 25, qr[2] # 0)

\* -1, 0 or 1 as a < b, a = b or a > b
F32Cmp(a, b) ==
    IF a[1] = 0 \/ b[1] = 0 THEN (IF a[1] < b[1] THEN -1 ELSE IF a[1] > b[1] THEN 1 ELSE 0)
    ELSE IF a[2] < b[2] THEN -1
    ELSE IF a[2] > b[2] THEN 1
    ELSE IF a[1] < b[1] THEN -1
    ELSE IF a[1] > b[1] THEN 1
    ELSE 0

\* (u16)f: truncation toward zero of a value below 65536
F32ToU16(f) ==
    IF f[1] = 0 THEN 0
    ELSE IF f[2] >= 0 THEN f[1] * 2^f[2]
    ELSE IF -f[2] > 30 THEN 0
    ELSE f[1] \div 2^(-f[2])

(***************************************************************************)
(* struct ScreenVert                                                       *)
(***************************************************************************)
ScreenVert(x, y, z, b) == [x |-> x, y |-> y, z |-> z, behind |-> b]

(***************************************************************************)
(* DepthRasterTriangle                                                     *)
(***************************************************************************)
\* The caller's order kept: the swap of vertices 1 and 2 left out
ReorderVertsKept(vertsSub) == <<vertsSub[1], vertsSub[2], vertsSub[3]>>

\* verts[0..2] = vertsSub[0], vertsSub[2], vertsSub[1] (sequences are 1-based)
ReorderVerts(vertsSub) == <<vertsSub[1], vertsSub[3], vertsSub[2]>>

\* The edge equations Fab(x, y) = A x + B y + C of the three segments
EdgeA(verts) == <<verts[2].y - verts[3].y, verts[3].y - verts[1].y, verts[1].y - verts[2].y>>
EdgeB(verts) == <<verts[3].x - verts[2].x, verts[1].x - verts[3].x, verts[2].x - verts[1].x>>
EdgeC(verts) == <<verts[2].x * verts[3].y - verts[3].x * verts[2].y,
                  verts[3].x * verts[1].y - verts[1].x * verts[3].y,
                  verts[1].x * verts[2].y - verts[2].x * verts[1].y>>

\* The area with the opposite sign convention
TriAreaNegated(verts) == 0 - (EdgeA(verts)[1] * verts[1].x + EdgeB(verts)[1] * verts[1].y + EdgeC(verts)[1])

TriArea(verts) == EdgeA(verts)[1] * verts[1].x + EdgeB(verts)[1] * verts[1].y + EdgeC(verts)[1]

\* The bounding box of the triangle clipped to the scissor rectangle
StartX(verts, tileStartX) == Max2(Min2(Min2(verts[1].x, verts[2].x), verts[3].x), tileStartX)
EndX(verts, tileEndX) == Min2(Max2(Max2(verts[1].x, verts[2].x), verts[3].x) + 1, tileEndX)
StartY(verts, tileStartY) == Max2(Min2(Min2(verts[1].y, verts[2].y), verts[3].y), tileStartY)
EndY(verts, tileEndY) == Min2(Max2(Max2(verts[1].y, verts[2].y), verts[3].y) + 1, tileEndY)

\* int mask = alpha >= 0 && beta >= 0 && gamma >= 0
InsideMask(alpha, beta, gamma) == alpha >= 0 /\ beta >= 0 /\ gamma >= 0

\* The switch with the LESS and GREATER cases exchanged
DepthMaskExchanged(compareMode, d, previousDepthValue) ==
    CASE compareMode = "EQUAL" -> F32Cmp(d, previousDepthValue) = 0
      [] compareMode = "LESS" -> F32Cmp(d, previousDepthValue) > 0
      [] compareMode = "LEQUAL" -> F32Cmp(d, previousDepthValue) <= 0
      [] compareMode = "GEQUAL" -> F32Cmp(d, previousDepthValue) >= 0
      [] compareMode = "GREATER" -> F32Cmp(d, previousDepthValue) < 0
      [] compareMode = "NOTEQUAL" -> F32Cmp(d, previousDepthValue) # 0
      [] OTHER -> TRUE

\* depthMask of the switch on compareMode; NEVER takes the default branch
DepthMask(compareMode, d, previousDepthValue) ==
    CASE compareMode = "EQUAL" -> F32Cmp(d, previousDepthValue) = 0
      [] compareMode = "LESS" -> F32Cmp(d, previousDepthValue) < 0
      [] compareMode = "LEQUAL" -> F32Cmp(d, previousDepthValue) <= 0
      [] compareMode = "GEQUAL" -> F32Cmp(d, previousDepthValue) >= 0
      [] compareMode = "GREATER" -> F32Cmp(d, previousDepthValue) > 0
      [] compareMode = "NOTEQUAL" -> F32Cmp(d, previousDepthValue) # 0
      [] OTHER -> TRUE

\* zz[vv] = (float)verts[vv].z * oneOverTriArea, oneOverTriArea = 1.0f / float(triArea)
DepthWeights(verts, triArea) ==
    LET oneOverTriArea == F32Div(F32FromInt(1), F32FromInt(triArea))
    IN [vv \in 1..3 |-> F32Mul(F32FromInt(verts[vv].z), oneOverTriArea)]

\* float depth = alpha * zz[0] + beta * zz[1] + gamma * zz[2]
InterpolateDepth(alpha, beta, gamma, zz) ==
    F32Add(F32Add(F32Mul(F32FromInt(alpha), zz[1]), F32Mul(F32FromInt(beta), zz[2])),
           F32Mul(F32FromInt(gamma), zz[3]))

DepthRasterTriangle(depthBuf, stride, x1, y1, x2, y2, vertsSub, compareMode) ==
    LET verts == ReorderVerts(vertsSub)
        startX == StartX(verts, x1)
        endX == EndX(verts, x2)
        startY == StartY(verts, y1)
        endY == EndY(verts, y2)
        A == EdgeA(verts)
        B == EdgeB(verts)
        C == EdgeC(verts)
        triArea == TriArea(verts)
        \* slopes at the starting corner
        alpha0 == (A[1] * startX) + (B[1] * startY) + C[1]
        beta0 == (A[2] * startX) + (B[2] * startY) + C[2]
        gamma0 == (A[3] * startX) + (B[3] * startY) + C[3]
        zz == DepthWeights(verts, triArea)
        \* the value of depthBuf[idx] after the pixel loop visited (c, r):
        \* the row steppers were advanced r - startY times, the column
        \* steppers c - startX times
        Pixel(idx, c, r) ==
            LET alpha == alpha0 + (r - startY) * B[1] + (c - startX) * A[1]
                beta == beta0 + (r - startY) * B[2] + (c - startX) * A[2]
                gamma == gamma0 + (r - startY) * B[3] + (c - startX) * A[3]
            IN IF ~InsideMask(alpha, beta, gamma) THEN depthBuf[idx]
               ELSE LET d == InterpolateDepth(alpha, beta, gamma, zz)
                        previousDepthValue == F32FromInt(depthBuf[idx])
                    IN IF DepthMask(compareMode, d, previousDepthValue)
                       THEN F32ToU16(d)
                       ELSE F32ToU16(previousDepthValue)
    IN IF endX = startX \/ endY = startY THEN depthBuf
       ELSE IF triArea <= 0 THEN depthBuf
       ELSE [idx \in DOMAIN depthBuf |->
               LET r == idx \div stride
                   c == idx % stride
               IN IF r >= startY /\ r < endY /\ c >= startX /\ c < endX
                  THEN Pixel(idx, c, r)
                  ELSE depthBuf[idx]]

(***************************************************************************)
(* DepthRasterRect.  The body is selected by the build: PPSSPP_ARCH(SSE2), *)
(* PPSSPP_ARCH(ARM64_NEON), or neither ("do nothing for now").             *)
(***************************************************************************)
Archs == {"SSE2", "ARM64_NEON", "NONE"}

\* Number of 16-bit cells one row of the fill stores, w = x2 - x1:
\* memset(ptr, 0, w * 2) for a zero depthValue, else one 8-lane store per
\* full group of 8 (while (w >= 8)); no trailer.
RectRowCells(w, depthValue, depthCompare) ==
    IF depthCompare # "ALWAYS" THEN 0
    ELSE IF depthValue = 0 THEN w
    ELSE 8 * (w \div 8)

DepthRasterRect(dest, stride, x1, y1, x2, y2, depthValue, depthCompare, build) ==
    LET xa == IF x1 > x2 THEN x2 ELSE x1
        xb == IF x1 > x2 THEN x1 ELSE x2
        ya == IF y1 > y2 THEN y2 ELSE y1
        yb == IF y1 > y2 THEN y1 ELSE y2
        n == RectRowCells(xb - xa, depthValue, depthCompare)
    IN IF xa = xb \/ ya = yb THEN dest
       ELSE IF build = "NONE" THEN dest
       ELSE [idx \in DOMAIN dest |->
               IF \E y \in ya .. (yb - 1) :
                      /\ idx >= stride * y + xa
                      /\ idx < stride * y + xa + n
               THEN depthValue
               ELSE dest[idx]]

(***************************************************************************)
(* State: the caller's depth buffer, the behind flags of the ScreenVert    *)
(* records in the caller's scratch buffer, the last call with its inputs   *)
(* and the buffer it found, the number of calls made, and the build.       *)
(***************************************************************************)
NoCall == [op |-> "none"]

\* Values a caller clears the depth buffer to before rasterizing
ClearVals == {U16Max, 200}

ClearedBuffer(v) == [idx \in Cells |-> v]

Init ==
    /\ depth = ClearedBuffer(U16Max)
    /\ behind = [i \in 0 .. (MaxCount - 1) |-> FALSE]
    /\ last = NoCall
    /\ draws = 0
    /\ arch \in Archs

(***************************************************************************)
(* Direct calls of DepthRasterTriangle                                     *)
(***************************************************************************)
TriPoints == {<<0, 0>>, <<4, 0>>, <<0, 4>>, <<0, 3>>, <<3, 1>>}
ZVals == {0, 400, U16Max}
Scissors == {<<0, 0, Stride, Rows>>, <<1, 1, 3, 3>>}

TriVert(p, z) == ScreenVert(p[1], p[2], z, FALSE)

CallDepthRasterTriangle ==
    /\ last.op = "none"
    /\ \E p0 \in TriPoints, p1 \in TriPoints, p2 \in TriPoints,
          z0 \in ZVals, z1 \in ZVals, z2 \in ZVals,
          sc \in Scissors, compareMode \in GEComparison :
          LET v == <<TriVert(p0, z0), TriVert(p1, z1), TriVert(p2, z2)>>
          IN /\ depth' = DepthRasterTriangle(depth, Stride, sc[1], sc[2], sc[3], sc[4], v, compareMode)
             /\ last' = [op |-> "tri", pre |-> depth, x1 |-> sc[1], y1 |-> sc[2],
                         x2 |-> sc[3], y2 |-> sc[4], v |-> v, mode |-> compareMode]
    /\ draws' = draws + 1
    /\ UNCHANGED <<behind, arch>>

\* DepthRasterTriangle has no build-dependent code
InitTri ==
    /\ depth \in {ClearedBuffer(v) : v \in ClearVals}
    /\ behind = [i \in 0 .. (MaxCount - 1) |-> FALSE]
    /\ last = NoCall
    /\ draws = 0
    /\ arch = "SSE2"

SpecTri == InitTri /\ [][CallDepthRasterTriangle]_vars

(***************************************************************************)
(* Direct calls of DepthRasterRect                                         *)
(***************************************************************************)
MaxRectRow == 2
RectDepths == {0, 100}
RectModes == {"ALWAYS", "NEVER", "LESS"}

CallDepthRasterRect ==
    /\ last.op = "none"
    /\ \E x1 \in 0 .. Stride, x2 \in 0 .. Stride, y1 \in 0 .. MaxRectRow, y2 \in 0 .. MaxRectRow,
          depthValue \in RectDepths, depthCompare \in RectModes :
          /\ depth' = DepthRasterRect(depth, Stride, x1, y1, x2, y2, depthValue, depthCompare, arch)
          /\ last' = [op |-> "rect", pre |-> depth, x1 |-> x1, y1 |-> y1, x2 |-> x2, y2 |-> y2,
                      depthValue |-> depthValue, mode |-> depthCompare]
    /\ draws' = draws + 1
    /\ UNCHANGED <<behind, arch>>

InitRect ==
    /\ depth \in {ClearedBuffer(v) : v \in ClearVals}
    /\ behind = [i \in 0 .. (MaxCount - 1) |-> FALSE]
    /\ last = NoCall
    /\ draws = 0
    /\ arch \in Archs

SpecRect == InitRect /\ [][CallDepthRasterRect]_vars

(***************************************************************************)
(* DepthRasterPrim.                                                        *)
(*                                                                         *)
(* A draw d carries the arguments and the GPU state the call reads:        *)
(*   d.prim, d.count, d.through and d.indexed (bits of vertTypeID),        *)
(*   d.vertexData (positions, GE_VTYPE_POS_FLOAT, integer valued),         *)
(*   d.gs (gstate) and the scissor d.x1, d.y1, d.x2, d.y2.                 *)
(* Arrays are indexed from 0 as in the source.                             *)
(***************************************************************************)
\* Math3D: vecOut = v * m for a 4x3 and a 4x4 matrix (m indexed from 0)
Vec3ByMatrix43(v, m) ==
    <<v[1] * m[0] + v[2] * m[3] + v[3] * m[6] + m[9],
      v[1] * m[1] + v[2] * m[4] + v[3] * m[7] + m[10],
      v[1] * m[2] + v[2] * m[5] + v[3] * m[8] + m[11]>>

Vec3ByMatrix44(v, m) ==
    <<v[1] * m[0] + v[2] * m[4] + v[3] * m[8] + m[12],
      v[1] * m[1] + v[2] * m[5] + v[3] * m[9] + m[13],
      v[1] * m[2] + v[2] * m[6] + v[3] * m[10] + m[14],
      v[1] * m[3] + v[2] * m[7] + v[3] * m[11] + m[15]>>

\* clamp_value(v, lo, hi)
ClampValue(v, lo, hi) == IF v < lo THEN lo ELSE IF v > hi THEN hi ELSE v

\* (int)f of the quotient n / den, den > 0: truncation toward zero
TruncDiv(n, den) == IF n >= 0 THEN n \div den ELSE -((-n) \div den)

\* GEComparison compareMode and whether the call goes on, from gstate
CompareModeOf(gs) == IF gs.modeClear THEN "ALWAYS" ELSE gs.depthTestFunction

GatePasses(gs) ==
    IF gs.modeClear THEN gs.clearModeDepthMask
    ELSE gs.depthTestEnabled /\ gs.depthWriteEnabled

PrimSupported(prim) == prim \notin {"INVALID", "KEEP_PREVIOUS", "LINES", "LINE_STRIP", "POINTS"}

\* bool inFront = w > 0.0f; screenVerts[i].behind = !inFront
IsBehind(w) == ~(w > 0)

\* One vertex of the transform loop.  proj / w is kept in halves, exact for
\* the w in {-2, -1, 1, 2} the draws use; all products are exact in binary32.
\* For w = 0 the quotients are not finite and their conversion to int is
\* undefined: the record then only carries the behind flag, and no draw
\* reads its coordinates (see TransformedRectDraws).
TransformVert(pos, gs) ==
    LET world == Vec3ByMatrix43(pos, gs.worldMatrix)
        view == Vec3ByMatrix43(world, gs.viewMatrix)
        proj == Vec3ByMatrix44(view, gs.projMatrix)
        w == proj[4]
        px2 == (2 * proj[1]) \div w
        py2 == (2 * proj[2]) \div w
        pz2 == (2 * proj[3]) \div w
        screen0 == px2 * gs.viewportXScale * 8 + gs.viewportXCenter * 16 - gs.offsetX16
        screen1 == py2 * gs.viewportYScale * 8 + gs.viewportYCenter * 16 - gs.offsetY16
        screen2x2 == pz2 * gs.viewportZScale + 2 * gs.viewportZCenter
        z2 == IF screen2x2 < 0 THEN 0 ELSE IF screen2x2 >= 2 * U16Max THEN 2 * U16Max ELSE screen2x2
    IN IF w = 0 THEN ScreenVert(0, 0, 0, IsBehind(w))
       ELSE ScreenVert(TruncDiv(screen0, 16), TruncDiv(screen1, 16), z2 \div 2, IsBehind(w))

\* One vertex of the through-mode loop: behind is not written, the record
\* keeps the flag the scratch buffer holds.
ThroughVert(pos, oldBehind) ==
    ScreenVert(pos[1], pos[2], ClampValue(pos[3], 0, U16Max), oldBehind)

\* screenVerts[0 .. count-1] after the vertex loop
ScreenVerts(d, scratchBehind) ==
    [i \in 0 .. (d.count - 1) |->
        IF d.through THEN ThroughVert(d.vertexData[i], scratchBehind[i])
        ELSE TransformVert(d.vertexData[i], d.gs)]

AllBehind(sv) == \A i \in DOMAIN sv : sv[i].behind

\* The call reaches the vertex loop / the primitive switch
ReachesVertexLoop(d) == GatePasses(d.gs) /\ PrimSupported(d.prim) /\ ~d.indexed
ReachesStitching(d, sv) == ReachesVertexLoop(d) /\ (d.through \/ ~AllBehind(sv))

\* GE_PRIM_RECTANGLES: the rectangles dispatched, in order
RectOf(sv, i) ==
    [x1 |-> sv[i].x, y1 |-> sv[i].y, x2 |-> sv[i + 1].x, y2 |-> sv[i + 1].y,
     z |-> sv[i + 1].z, a |-> i, b |-> i + 1]

RectList(sv, count) == [k \in 1 .. (count \div 2) |-> RectOf(sv, k - 1)]

\* GE_PRIM_TRIANGLES: the index triples dispatched, in order
RECURSIVE ListTris(_, _, _)
ListTris(sv, count, i) ==
    IF i >= count \div 3 THEN <<>>
    ELSE IF sv[i * 3].behind \/ sv[i * 3 + 1].behind \/ sv[i * 3 + 2].behind
         THEN ListTris(sv, count, i + 1)
    ELSE <<(<<i * 3, i * 3 + 1, i * 3 + 2>>)>> \o ListTris(sv, count, i + 1)

\* wind left as it is: the toggle left out
Xor3Stuck(wind) == wind

\* wind ^ 3 for wind in 0..3
Xor3(wind) == 3 - wind

\* GE_PRIM_TRIANGLE_STRIP: the index triples dispatched, in order
RECURSIVE StripTris(_, _, _, _)
StripTris(sv, count, i, wind) ==
    IF i >= count - 2 THEN <<>>
    ELSE LET i0 == i
             i1 == i + wind
             wind2 == Xor3(wind)
             i2 == i + wind2
         IN IF sv[i0].behind \/ sv[i1].behind \/ sv[i2].behind
            THEN StripTris(sv, count, i + 1, wind2)
            ELSE <<(<<i0, i1, i2>>)>> \o StripTris(sv, count, i + 1, wind2)

StripStartWind == 2

DispatchedRects(d, sv) ==
    IF ReachesStitching(d, sv) /\ d.prim = "RECTANGLES" THEN RectList(sv, d.count) ELSE <<>>

DispatchedTris(d, sv) ==
    IF ~ReachesStitching(d, sv) THEN <<>>
    ELSE IF d.prim = "TRIANGLES" THEN ListTris(sv, d.count, 0)
    ELSE IF d.prim = "TRIANGLE_STRIP" THEN StripTris(sv, d.count, 0, StripStartWind)
    ELSE <<>>

RECURSIVE FillRects(_, _, _, _, _)
FillRects(buf, rects, k, compareMode, build) ==
    IF k > Len(rects) THEN buf
    ELSE FillRects(DepthRasterRect(buf, Stride, rects[k].x1, rects[k].y1, rects[k].x2, rects[k].y2,
                                   rects[k].z, compareMode, build),
                   rects, k + 1, compareMode, build)

RECURSIVE FillTris(_, _, _, _, _, _)
FillTris(buf, sv, tris, k, d, compareMode) ==
    IF k > Len(tris) THEN buf
    ELSE FillTris(DepthRasterTriangle(buf, Stride, d.x1, d.y1, d.x2, d.y2,
                                      <<sv[tris[k][1]], sv[tris[k][2]], sv[tris[k][3]]>>, compareMode),
                  sv, tris, k + 1, d, compareMode)

\* The depth buffer after the call
DepthRasterPrim(buf, d, sv, build) ==
    FillTris(FillRects(buf, DispatchedRects(d, sv), 1, CompareModeOf(d.gs), build),
             sv, DispatchedTris(d, sv), 1, d, CompareModeOf(d.gs))

\* The behind flags of the scratch buffer after the call: the transform
\* loop writes screenVerts[i].behind for i < count, the through-mode loop
\* writes x, y and z only.
ScratchBehindAfter(d, sv, scratchBehind) ==
    [i \in DOMAIN scratchBehind |->
        IF ReachesVertexLoop(d) /\ ~d.through /\ i < d.count THEN sv[i].behind
        ELSE scratchBehind[i]]

(***************************************************************************)
(* The GPU states and vertex arrays the draws are taken from.              *)
(***************************************************************************)
Identity43 == [k \in 0 .. 11 |-> IF k \in {0, 4, 8} THEN 1 ELSE 0]

\* clip = (x, y, 100, z): w is the view-space z of the vertex
Perspective44 == [k \in 0 .. 15 |-> IF k \in {0, 5, 11} THEN 1 ELSE IF k = 14 THEN 100 ELSE 0]

GsDepthTest ==
    [modeClear |-> FALSE, clearModeDepthMask |-> FALSE,
     depthTestEnabled |-> TRUE, depthWriteEnabled |-> TRUE, depthTestFunction |-> "LEQUAL",
     worldMatrix |-> Identity43, viewMatrix |-> Identity43, projMatrix |-> Perspective44,
     viewportXCenter |-> 2048, viewportYCenter |-> 2048, viewportZCenter |-> 50,
     viewportXScale |-> 1, viewportYScale |-> 1, viewportZScale |-> 1,
     offsetX16 |-> 32768, offsetY16 |-> 32768]

GsClear == [GsDepthTest EXCEPT !.modeClear = TRUE, !.clearModeDepthMask = TRUE,
                               !.depthTestFunction = "NEVER"]
GsClearNoDepth == [GsDepthTest EXCEPT !.modeClear = TRUE]
GsNoDepthTest == [GsDepthTest EXCEPT !.depthTestEnabled = FALSE]
GsNoDepthWrite == [GsDepthTest EXCEPT !.depthWriteEnabled = FALSE]

AcceptedGs == {GsDepthTest, GsClear}
RejectedGs == {GsClearNoDepth, GsNoDepthTest, GsNoDepthWrite}

\* Screen positions of vertex i: rectangle corners stepping down the
\* buffer one row per vertex, and a zigzag triangle strip
StairPos(i) == <<IF i % 2 = 0 THEN 0 ELSE Stride, i, 100 * (i \div 2)>>
ZigZagPos(i) == <<2 * (i \div 2), 2 * (1 - (i % 2)), 100 * i>>

ShapePos(shape, i) == IF shape = "stairs" THEN StairPos(i) ELSE ZigZagPos(i)

\* Through-mode data are the screen positions; transformed data are placed
\* so that the vertex with view-space depth w projects onto its position
VertexData(shape, count, through, ws) ==
    [i \in 0 .. (count - 1) |->
        IF through THEN ShapePos(shape, i)
        ELSE <<ShapePos(shape, i)[1] * ws[i], ShapePos(shape, i)[2] * ws[i], ws[i]>>]

Draw(prim, count, through, indexed, shape, ws, gs, sc) ==
    [prim |-> prim, count |-> count, through |-> through, indexed |-> indexed,
     vertexData |-> VertexData(shape, count, through, ws), gs |-> gs,
     x1 |-> sc[1], y1 |-> sc[2], x2 |-> sc[3], y2 |-> sc[4]]

\* View-space depths w of the vertices of a transformed draw
WPatterns == {"front", "lastBehind", "firstAtZero", "allBehind"}
WOf(pat, count) ==
    [i \in 0 .. (count - 1) |->
        CASE pat = "front" -> 1 + (i % 2)
          [] pat = "lastBehind" -> IF i = count - 1 THEN -1 ELSE 1
          [] pat = "firstAtZero" -> IF i = 0 THEN 0 ELSE 1
          [] OTHER -> -1 - (i % 2)]

NoW == <<>>

ThroughDraws(prim, shape) ==
    {Draw(prim, count, TRUE, FALSE, shape, NoW, gs, sc) :
        count \in 0 .. MaxCount, gs \in AcceptedGs, sc \in Scissors}

TransformedDraws(prim, shape, pats) ==
    {Draw(prim, count, FALSE, FALSE, shape, WOf(pat, count), gs, sc) :
        count \in 0 .. MaxCount, pat \in pats, gs \in AcceptedGs, sc \in Scissors}

\* The rectangle path reads the coordinates of every vertex, so rectangle
\* draws take no vertex with w = 0, whose coordinates are undefined.
TransformedRectDraws == TransformedDraws("RECTANGLES", "stairs", WPatterns \ {"firstAtZero"})

RectangleDraws == ThroughDraws("RECTANGLES", "stairs") \cup TransformedRectDraws
TriangleDraws == ThroughDraws("TRIANGLES", "zigzag") \cup TransformedDraws("TRIANGLES", "zigzag", WPatterns)
StripDraws == ThroughDraws("TRIANGLE_STRIP", "zigzag") \cup TransformedDraws("TRIANGLE_STRIP", "zigzag", WPatterns)

FullScissor == <<0, 0, Stride, Rows>>

\* Draws the call returns from before it reads a vertex
RejectedDraws ==
    {Draw("TRIANGLES", 3, TRUE, FALSE, "zigzag", NoW, gs, FullScissor) : gs \in RejectedGs}
    \cup {Draw(prim, 3, TRUE, FALSE, "zigzag", NoW, GsClear, FullScissor) : prim \in {"LINES", "POINTS"}}
    \cup {Draw("TRIANGLES", 3, TRUE, TRUE, "zigzag", NoW, GsClear, FullScissor)}

(***************************************************************************)
(* Calls of DepthRasterPrim through one depth buffer and one scratch       *)
(* buffer.                                                                 *)
(***************************************************************************)
CallDepthRasterPrim(d) ==
    LET sv == ScreenVerts(d, behind)
    IN /\ depth' = DepthRasterPrim(depth, d, sv, arch)
       /\ behind' = ScratchBehindAfter(d, sv, behind)
       /\ last' = [op |-> "prim", pre |-> depth, d |-> d, sv |-> sv,
                   rects |-> DispatchedRects(d, sv), tris |-> DispatchedTris(d, sv)]
       /\ draws' = draws + 1
       /\ UNCHANGED arch

DrawRectangles == draws < MaxDraws /\ \E d \in RectangleDraws : CallDepthRasterPrim(d)
DrawTriangles == draws < MaxDraws /\ \E d \in TriangleDraws : CallDepthRasterPrim(d)
DrawTriangleStrip == draws < MaxDraws /\ \E d \in StripDraws : CallDepthRasterPrim(d)
DrawRejected == draws < MaxDraws /\ \E d \in RejectedDraws : CallDepthRasterPrim(d)

Next == DrawRectangles \/ DrawTriangles \/ DrawTriangleStrip \/ DrawRejected

Spec == Init /\ [][Next]_vars

(***************************************************************************)
(* One triangle-strip draw through a scratch buffer whose behind flags are *)
(* in any state the allocator or earlier draws left them in, with every    *)
(* assignment of view-space depths to the vertices.                        *)
(***************************************************************************)
StripWVals == {-1, 0, 1}

AnyStripDraws ==
    {Draw("TRIANGLE_STRIP", count, TRUE, FALSE, "zigzag", NoW, gs, FullScissor) :
        count \in 0 .. MaxCount, gs \in AcceptedGs}
    \cup UNION {{Draw("TRIANGLE_STRIP", count, FALSE, FALSE, "zigzag", ws, gs, FullScissor) :
                    ws \in [0 .. (count - 1) -> StripWVals], gs \in AcceptedGs} :
                count \in 0 .. MaxCount}

InitStrip ==
    /\ depth = ClearedBuffer(U16Max)
    /\ behind \in [0 .. (MaxCount - 1) -> BOOLEAN]
    /\ last = NoCall
    /\ draws = 0
    /\ arch = "SSE2"

DrawAnyStrip == last.op = "none" /\ \E d \in AnyStripDraws : CallDepthRasterPrim(d)

SpecStrip == InitStrip /\ [][DrawAnyStrip]_vars

(***************************************************************************)
(* Properties.  Each is stated over the last call: its inputs, the buffer  *)
(* it found (last.pre) and the buffer it left (depth).                     *)
(***************************************************************************)
InRange(lo, v, hi) == lo <= v /\ v < hi

\* ---- DepthRasterRect -------------------------------------------------------

\* C1: after DepthRasterRect(..., ALWAYS), with any corner order, width,
\* height and depthValue, every cell of [min x, max x) x [min y, max y) holds
\* depthValue and every other cell holds the value it had before the call.
C1_RectAlwaysFillsExactly ==
    (last.op = "rect" /\ last.mode = "ALWAYS") =>
        \A idx \in Cells :
            depth[idx] =
                IF /\ InRange(Min2(last.x1, last.x2), ColOf(idx), Max2(last.x1, last.x2))
                   /\ InRange(Min2(last.y1, last.y2), RowOf(idx), Max2(last.y1, last.y2))
                THEN last.depthValue
                ELSE last.pre[idx]

\* ---- DepthRasterTriangle ---------------------------------------------------

\* The edge function of the segment a -> b at (x, y)
EdgeFn(a, b, x, y) == (a.y - b.y) * x + (b.x - a.x) * y + (a.x * b.y - b.x * a.y)

\* The reordered vertices 0, 1, 2 of a call with vertices v, their edge
\* functions (each opposite its vertex) and triArea
RV(v) == [k \in 0 .. 2 |-> IF k = 0 THEN v[1] ELSE IF k = 1 THEN v[3] ELSE v[2]]
AlphaAt(v, x, y) == EdgeFn(RV(v)[1], RV(v)[2], x, y)
BetaAt(v, x, y) == EdgeFn(RV(v)[2], RV(v)[0], x, y)
GammaAt(v, x, y) == EdgeFn(RV(v)[0], RV(v)[1], x, y)
AreaOf(v) == AlphaAt(v, RV(v)[0].x, RV(v)[0].y)

MinOf3(a, b, c) == Min2(Min2(a, b), c)
MaxOf3(a, b, c) == Max2(Max2(a, b), c)

\* The cell lies in the bounding box of v clipped to the scissor rectangle
InClippedBox(v, x1, y1, x2, y2, idx) ==
    /\ InRange(Max2(MinOf3(v[1].x, v[2].x, v[3].x), x1), ColOf(idx),
               Min2(MaxOf3(v[1].x, v[2].x, v[3].x) + 1, x2))
    /\ InRange(Max2(MinOf3(v[1].y, v[2].y, v[3].y), y1), RowOf(idx),
               Min2(MaxOf3(v[1].y, v[2].y, v[3].y) + 1, y2))

AllEdgesNonNeg(v, idx) ==
    /\ AlphaAt(v, ColOf(idx), RowOf(idx)) >= 0
    /\ BetaAt(v, ColOf(idx), RowOf(idx)) >= 0
    /\ GammaAt(v, ColOf(idx), RowOf(idx)) >= 0

\* The cell is a covered pixel of the last triangle call
Covered(idx) ==
    /\ AreaOf(last.v) > 0
    /\ InClippedBox(last.v, last.x1, last.y1, last.x2, last.y2, idx)
    /\ AllEdgesNonNeg(last.v, idx)

\* (alpha z0 + beta z1 + gamma z2) / triArea, truncated to 16 bits
ExactDepth(v, idx) ==
    ((AlphaAt(v, ColOf(idx), RowOf(idx)) * RV(v)[0].z
      + BetaAt(v, ColOf(idx), RowOf(idx)) * RV(v)[1].z
      + GammaAt(v, ColOf(idx), RowOf(idx)) * RV(v)[2].z) \div AreaOf(v)) % 65536

\* C4: for triArea > 0 and ALWAYS, every pixel of the clipped bounding box
\* with all three edge functions >= 0 ends with the exact barycentric depth
\* (alpha z0 + beta z1 + gamma z2) / triArea truncated to 16 bits, and every
\* pixel with a negative edge function keeps its value.
C4_ExactBarycentricDepth ==
    (last.op = "tri" /\ last.mode = "ALWAYS" /\ AreaOf(last.v) > 0) =>
        \A idx \in Cells :
            InClippedBox(last.v, last.x1, last.y1, last.x2, last.y2, idx) =>
                depth[idx] = IF AllEdgesNonNeg(last.v, idx) THEN ExactDepth(last.v, idx)
                             ELSE last.pre[idx]

\* Scenario B of the specification and its image: 100 * y on the pixels with
\* x + y <= 4, the cleared value elsewhere
ScenarioB == <<ScreenVert(0, 0, 0, FALSE), ScreenVert(4, 0, 0, FALSE), ScreenVert(0, 4, 400, FALSE)>>
ScenarioBReversed == <<ScenarioB[3], ScenarioB[2], ScenarioB[1]>>
ScenarioBImage ==
    [idx \in Cells |-> IF ColOf(idx) + RowOf(idx) <= 4 THEN 100 * RowOf(idx) ELSE U16Max]

IsScenarioCall(v) ==
    /\ last.op = "tri"
    /\ last.v = v
    /\ last.mode = "ALWAYS"
    /\ <<last.x1, last.y1, last.x2, last.y2>> = FullScissor
    /\ last.pre = ClearedBuffer(U16Max)

\* C5 as stated: the triangle in caller order (0,0,0), (4,0,0), (0,4,400) is
\* rasterized to 100 * y on the pixels with x + y <= 4, and the same triangle
\* in reversed order writes nothing.
C5_WindingAsStated ==
    /\ IsScenarioCall(ScenarioB) => depth = ScenarioBImage
    /\ IsScenarioCall(ScenarioBReversed) => depth = last.pre

\* C5, amended: the triangle in caller order (0,0,0), (4,0,0), (0,4,400)
\* writes nothing, and the reversed order (0,4,400), (4,0,0), (0,0,0) is the
\* one rasterized, to 100 * y on the pixels with x + y <= 4 and the cleared
\* value elsewhere.
C5_WindingOfCode ==
    /\ IsScenarioCall(ScenarioB) => depth = last.pre
    /\ IsScenarioCall(ScenarioBReversed) => depth = ScenarioBImage

C5_Witness == IsScenarioCall(ScenarioBReversed) /\ depth # last.pre

\* C6: a call whose triArea (first edge equation at reordered vertex 0) is
\* zero or negative leaves the depth buffer as it was, in every mode.
C6_CulledTriangleWritesNothing ==
    (last.op = "tri" /\ AreaOf(last.v) <= 0) => depth = last.pre

\* a culled triangle whose clipped bounding box holds pixels a LESS test
\* against the triangle's depths would have passed
C6_Witness ==
    /\ last.op = "tri"
    /\ AreaOf(last.v) < 0
    /\ last.mode = "LESS"
    /\ \E idx \in Cells :
          /\ InClippedBox(last.v, last.x1, last.y1, last.x2, last.y2, idx)
          /\ last.pre[idx] > last.v[1].z

\* The interpolated depth of a covered pixel, in single precision
DepthAt(v, idx) ==
    InterpolateDepth(AlphaAt(v, ColOf(idx), RowOf(idx)), BetaAt(v, ColOf(idx), RowOf(idx)),
                     GammaAt(v, ColOf(idx), RowOf(idx)),
                     DepthWeights(<<RV(v)[0], RV(v)[1], RV(v)[2]>>, AreaOf(v)))

\* The predicate of a comparison mode between interpolated and stored depth
ModeHolds(mode, d, stored) ==
    LET c == F32Cmp(d, F32FromInt(stored))
    IN \/ mode = "EQUAL" /\ c = 0
       \/ mode = "NOTEQUAL" /\ c # 0
       \/ mode = "LESS" /\ c = -1
       \/ mode = "LEQUAL" /\ c \in {-1, 0}
       \/ mode = "GREATER" /\ c = 1
       \/ mode = "GEQUAL" /\ c \in {0, 1}

TestedModes == {"EQUAL", "NOTEQUAL", "LESS", "LEQUAL", "GREATER", "GEQUAL"}

\* C7: under EQUAL, NOTEQUAL, LESS, LEQUAL, GREATER and GEQUAL a covered
\* pixel is replaced by the truncated interpolated depth exactly when the
\* mode's predicate holds between the interpolated depth and the stored
\* value, and keeps its value otherwise; with LESS, a triangle whose
\* interpolated depth exceeds the stored value at every covered pixel leaves
\* the whole buffer unchanged.
C7_DepthTestPerPixel ==
    (last.op = "tri" /\ last.mode \in TestedModes) =>
        /\ \A idx \in Cells :
              Covered(idx) =>
                  depth[idx] = IF ModeHolds(last.mode, DepthAt(last.v, idx), last.pre[idx])
                               THEN F32ToU16(DepthAt(last.v, idx))
                               ELSE last.pre[idx]
        /\ (/\ last.mode = "LESS"
            /\ \A idx \in Cells :
                  Covered(idx) => F32Cmp(DepthAt(last.v, idx), F32FromInt(last.pre[idx])) = 1)
           => depth = last.pre

\* a LESS call that replaced one covered pixel and kept another
C7_Witness ==
    /\ last.op = "tri"
    /\ last.mode = "LESS"
    /\ \E idx \in Cells : Covered(idx) /\ depth[idx] # last.pre[idx]
    /\ \E idx \in Cells :
          Covered(idx) /\ F32Cmp(DepthAt(last.v, idx), F32FromInt(last.pre[idx])) = 1

\* ---- DepthRasterPrim -------------------------------------------------------

OutsideScissor(d, idx) ==
    ~(InRange(d.x1, ColOf(idx), d.x2) /\ InRange(d.y1, RowOf(idx), d.y2))

\* C2: every cell outside the scissor rectangle of a DepthRasterPrim call
\* has the same value after the call as before it.
C2_NoWriteOutsideScissor ==
    last.op = "prim" =>
        \A idx \in Cells : OutsideScissor(last.d, idx) => depth[idx] = last.pre[idx]

\* C3: a GE_PRIM_RECTANGLES draw of count vertices dispatches exactly one
\* fill per k < count / 2, with corners at screen vertices 2k and 2k + 1 and
\* the depth of vertex 2k + 1, so that no vertex is used by two rectangles.
C3_RectanglesUseDisjointPairs ==
    (last.op = "prim" /\ last.d.prim = "RECTANGLES" /\ ReachesStitching(last.d, last.sv)) =>
        /\ Len(last.rects) = last.d.count \div 2
        /\ \A k \in 0 .. ((last.d.count \div 2) - 1) :
              /\ <<last.rects[k + 1].x1, last.rects[k + 1].y1>> = <<last.sv[2 * k].x, last.sv[2 * k].y>>
              /\ <<last.rects[k + 1].x2, last.rects[k + 1].y2>>
                    = <<last.sv[2 * k + 1].x, last.sv[2 * k + 1].y>>
              /\ last.rects[k + 1].z = last.sv[2 * k + 1].z

\* The clip-space w of vertex i of a transformed draw
ClipW(d, i) ==
    Vec3ByMatrix44(Vec3ByMatrix43(Vec3ByMatrix43(d.vertexData[i], d.gs.worldMatrix), d.gs.viewMatrix),
                   d.gs.projMatrix)[4]

RectUsesBehind(sv, r) == sv[r.a].behind \/ sv[r.b].behind
TriUsesBehind(sv, t) == sv[t[1]].behind \/ sv[t[2]].behind \/ sv[t[3]].behind

\* The primitives of a draw in stitching order, whether dispatched or not
AllRectsOf(d, sv) == IF d.prim = "RECTANGLES" THEN RectList(sv, d.count) ELSE <<>>
AllTrisOf(d) ==
    IF d.prim = "TRIANGLES" THEN [k \in 1 .. (d.count \div 3) |-> <<3 * k - 3, 3 * k - 2, 3 * k - 1>>]
    ELSE IF d.prim = "TRIANGLE_STRIP"
         THEN [k \in 1 .. Max2(d.count - 2, 0) |->
                  IF k % 2 = 1 THEN <<k - 1, k + 1, k>> ELSE <<k - 1, k, k + 1>>]
    ELSE <<>>

\* The buffer a draw leaves when exactly its primitives without a behind
\* vertex are rasterized
WithoutBehindPrims(buf, d, sv, build) ==
    LET keepR(r) == ~RectUsesBehind(sv, r)
        keepT(t) == ~TriUsesBehind(sv, t)
    IN FillTris(FillRects(buf, SelectSeq(AllRectsOf(d, sv), keepR), 1, CompareModeOf(d.gs), build),
                sv, SelectSeq(AllTrisOf(d), keepT), 1, d, CompareModeOf(d.gs))

\* C8: in a transformed draw a vertex is marked behind exactly when its
\* clip-space w <= 0; no rectangle, list triangle or strip triangle with a
\* behind vertex writes to the depth buffer; and a draw whose vertices are
\* all behind writes nothing.
C8_BehindPrimitivesWriteNothing ==
    (last.op = "prim" /\ ~last.d.through /\ ReachesVertexLoop(last.d)) =>
        /\ \A i \in 0 .. (last.d.count - 1) : last.sv[i].behind <=> (ClipW(last.d, i) <= 0)
        /\ depth = WithoutBehindPrims(last.pre, last.d, last.sv, arch)
        /\ AllBehind(last.sv) => depth = last.pre

\* Twice the signed area of a triangle in the order its vertices are passed
Orientation(sv, t) ==
    (sv[t[2]].x - sv[t[1]].x) * (sv[t[3]].y - sv[t[1]].y)
    - (sv[t[3]].x - sv[t[1]].x) * (sv[t[2]].y - sv[t[1]].y)

IndexSet(t) == {t[1], t[2], t[3]}

\* The steps i of a strip none of whose vertices i, i+1, i+2 is marked behind
UnculledSteps(sv, count) ==
    {i \in 0 .. (count - 3) : ~(sv[i].behind \/ sv[i + 1].behind \/ sv[i + 2].behind)}

\* C9: a GE_PRIM_TRIANGLE_STRIP draw of count >= 3 vertices dispatches, in
\* order of i, the triangle (i, i + wind, i + (wind XOR 3)) for exactly the
\* steps i in 0 .. count-3 with no vertex marked behind; wind alternates
\* between 1 and 2 from one step to the next, each triangle uses the indices
\* {i, i+1, i+2}, and all dispatched triangles have the same orientation.
C9_StripStitching ==
    (/\ last.op = "prim"
     /\ last.d.prim = "TRIANGLE_STRIP"
     /\ last.d.count >= 3
     /\ ReachesVertexLoop(last.d)) =>
        LET T == last.tris
            sv == last.sv
        IN /\ {T[k][1] : k \in 1 .. Len(T)} = UnculledSteps(sv, last.d.count)
           /\ \A j, k \in 1 .. Len(T) : j < k => T[j][1] < T[k][1]
           /\ \A k \in 1 .. Len(T) :
                 /\ IndexSet(T[k]) = {T[k][1], T[k][1] + 1, T[k][1] + 2}
                 /\ T[k][2] - T[k][1] \in {1, 2}
                 /\ T[k][3] - T[k][1] = 3 - (T[k][2] - T[k][1])
                 /\ \A i \in IndexSet(T[k]) : i < last.d.count
           /\ \A j, k \in 1 .. Len(T) :
                 /\ ((T[j][1] - T[k][1]) % 2 = 1) => (T[j][2] - T[j][1]) # (T[k][2] - T[k][1])
                 /\ ((T[j][1] - T[k][1]) % 2 = 0) => (T[j][2] - T[j][1]) = (T[k][2] - T[k][1])
                 /\ Orientation(sv, T[j]) * Orientation(sv, T[k]) > 0

\* a strip of five vertices with two triangles dispatched and one skipped
C9_Witness ==
    /\ last.op = "prim"
    /\ last.d.prim = "TRIANGLE_STRIP"
    /\ last.d.count = 5
    /\ ReachesVertexLoop(last.d)
    /\ Len(last.tris) = 2
    /\ last.tris[2][1] = last.tris[1][1] + 1
    /\ depth # last.pre

\* The triangles a list or strip of count vertices holds
TriangleCount(d) == IF d.prim = "TRIANGLES" THEN d.count \div 3 ELSE Max2(d.count - 2, 0)

\* C10: what a draw does depends on its own inputs, not on what earlier
\* draws left in the scratch buffer; a through-mode triangle list or strip
\* dispatches every one of its triangles.
C10_ThroughDrawIgnoresScratch ==
    (/\ last.op = "prim"
     /\ last.d.through
     /\ last.d.prim \in {"TRIANGLES", "TRIANGLE_STRIP"}
     /\ ReachesVertexLoop(last.d)) =>
        /\ Len(last.tris) = TriangleCount(last.d)
        /\ depth = DepthRasterPrim(last.pre, last.d,
                                   ScreenVerts(last.d, [i \in 0 .. (MaxCount - 1) |-> FALSE]), arch)

====
